---------------------------- MODULE Spec2Model ----------------------------
(***************************************************************************)
(* A model of the fractal image generator of src/src/main.cpp:             *)
(*                                                                         *)
(*   - Mandlebrot::computeMultiCore: the worker threads that draw block    *)
(*     indices from the atomic counter nextBlock, compute the block's      *)
(*     column range with computeArea and bump the atomic doneBlock, and    *)
(*     the main thread that spawns and joins them (specification Spec,     *)
(*     and FairSpec for what fair scheduling guarantees);                  *)
(*   - the column ranges of the 100 blocks, as int arithmetic computes     *)
(*     them (specification PartitionSpec);                                 *)
(*   - the iteration loop of Mandlebrot::computePixel and the branch that  *)
(*     follows it (specification PixelSpec);                               *)
(*   - the constructors Mandlebrot::Mandlebrot and Image::Image            *)
(*     (specification CtorSpec).                                           *)
(*                                                                         *)
(* Doubles are not modelled bit by bit.  The only thing the iteration loop *)
(* reads from the orbit is the outcome of the test norm(z) < stopNorm, so  *)
(* that outcome is an input of every loop test.  The colour computePixel   *)
(* gives to a pixel depends on nothing but (x, y) and fields that are not  *)
(* written while rendering, so it is the symbolic value PixelColor(x, y).  *)
(***************************************************************************)
EXTENDS Integers, FiniteSets, Sequences, TLC

(***************************************************************************)
(* Program constants.                                                      *)
(***************************************************************************)
\* The fixed number of blocks of computeMultiCore (main.cpp:231, 234, 235).
NumBlocks == 100

\* Mandlebrot::maxIterations, as the constructor sets it (main.cpp:132).
maxIterations == 100

\* The largest value of an int: width, currentBlock and their product are int.
IntMax == 2147483647

\* The width of the image main() renders: int (500 * (1.7 - (-2.7))).
MainWidth == 2200

(***************************************************************************)
(* Bounds of the model.                                                    *)
(***************************************************************************)
\* The largest value std::thread::hardware_concurrency () returns here.
MaxThreads == 2

\* Images up to this width have every column tracked.
MaxWidth == 2

\* The largest image height.
MaxHeight == 1

\* Every width up to this one is partitioned in PartitionSpec, with every
\* column tracked.
MaxPartWidth == 120

\* The constructor's resolution ranges over 0..MaxResolution.
MaxResolution == 3

\* The viewport corners range over -MaxCorner..MaxCorner halves.
MaxCorner == 2

VARIABLES
    \* ---- the engine while computeMultiCore runs
    width,          \* image.width
    height,         \* image.height
    nThreads,       \* what hardware_concurrency () returned
    mainPc,         \* the main thread: "running" (spawning, joining), "returned"
    spawned,        \* how many threads the spawn loop has started
    joined,         \* how many threads the join loop has joined
    pc,             \* per worker: "unborn", "claim", "compute", "report", "exit"
    currentBlock,   \* per worker: its local currentBlock
    nextBlock,      \* std::atomic<int> nextBlock
    doneBlock,      \* std::atomic<int> doneBlock
    raster,         \* image.data, per tracked pixel: its colour and who wrote it
    claims,         \* history: how often each index was drawn from nextBlock
    computed,       \* history: how often computeArea ran to its end for an index
    finished,       \* history: how many computeArea calls of workers have ended
    printed,        \* history: how often each percentage was printed
    \* ---- the partition of the columns into blocks
    pWidth,         \* the width being partitioned
    pBlock,         \* the next block whose range is applied
    pCover,         \* per tracked column: in how many block ranges it lies
    pOutside,       \* whether a block reached a column < 0 or >= width
    \* ---- one call of computePixel
    pxPc,           \* "loop", "select", "body", "gradient"
    iN,             \* the local counter iN
    steps,          \* history: how often z = step (z, c) ran
    escaped,        \* history: the loop ended on norm(z) >= stopNorm
    color,          \* what is written to the pixel
    \* ---- one construction of the engine
    ctor            \* the outcome of Mandlebrot (resolution, left, top, right, bottom)

concVars == <<width, height, nThreads, mainPc, spawned, joined, pc, currentBlock,
              nextBlock, doneBlock, raster, claims, computed, finished, printed>>
partVars == <<pWidth, pBlock, pCover, pOutside>>
pixVars == <<pxPc, iN, steps, escaped, color>>
ctorVars == <<ctor>>
vars == <<concVars, partVars, pixVars, ctorVars>>

(***************************************************************************)
(* int arithmetic.                                                         *)
(***************************************************************************)
\* a * w overflows int (undefined behaviour), for a >= 0 and w >= 0.
MulOverflows(a, w) == a > 0 /\ w > IntMax \div a

\* The int product a * w for 0 <= a < 2^15 and 0 <= w <= IntMax.  When the
\* product overflows, the behaviour is undefined; the build of the Makefile
\* (g++, no -O, no -ftrapv) multiplies with a 32-bit imul, whose result is the
\* product modulo 2^32 read as a signed value.  It is computed here on 16-bit
\* halves, so that no intermediate value leaves the int range.
MulInt(a, w) ==
    LET lo == w % 65536
        hi == w \div 65536
        low16 == (a * lo) % 65536
        carry == (a * lo) \div 65536
        high16 == (a * hi + carry) % 65536
    IN  IF high16 >= 32768 THEN (high16 - 65536) * 65536 + low16
                           ELSE high16 * 65536 + low16

\* The int quotient a / b of C++ (b > 0): truncation toward zero.
DivInt(a, b) ==
    LET q == a \div b
    IN  IF a < 0 /\ a % b # 0 THEN q + 1 ELSE q

\* (currentBlock+0) * image.width / 100 and (currentBlock+1) * image.width / 100
BlockLeft(b, w) == DivInt(MulInt(b, w), NumBlocks)
BlockRight(b, w) == DivInt(MulInt(b + 1, w), NumBlocks)

\* The least width for which (99+1) * image.width overflows int.
OverflowWidth == IntMax \div NumBlocks + 1

(***************************************************************************)
(* The raster.                                                             *)
(***************************************************************************)
\* The columns of an image of width w that the model tracks: all of them for
\* a small image, the first, the middle and the last for a large one.
Columns(w) == IF w <= MaxWidth THEN 0 .. w - 1 ELSE {0, w \div 2, w - 1}

Pixels(w, h) == Columns(w) \X (0 .. h - 1)

\* The colour computePixel (x, y) computes: a function of the pixel and of
\* fields no thread writes while rendering.
PixelColor(x, y) == <<"color", x, y>>

\* What a pixel holds before computePixel writes it: new Color [width * 3]
\* initialises nothing, so it is whatever the allocation held.  That may be
\* any colour; the value below stands for a content that nothing makes equal
\* to a colour computePixel computes.
Uninitialised == <<"uninitialised", 0, 0>>

\* The image as Image::Image leaves it.
BlankRaster(w, h) ==
    [p \in Pixels(w, h) |-> [color |-> Uninitialised, writes |-> 0, writers |-> {}]]

\* computePixel (x, y), run by `who`, on raster r.
ComputePixel(r, x, y, who) ==
    [r EXCEPT ![<<x, y>>] = [color |-> PixelColor(x, y),
                             writes |-> @.writes + 1,
                             writers |-> @.writers \cup {who}]]

\* computeArea (leftArea, topArea, rightArea, bottomArea), run by `who`, on
\* raster r: computePixel for every y in [topArea, bottomArea) and every x in
\* [leftArea, rightArea); the pixels of the area are distinct, so the order of
\* the two loops does not show in the result.
ComputeArea(r, leftArea, topArea, rightArea, bottomArea, who) ==
    [p \in DOMAIN r |->
        IF /\ leftArea <= p[1] /\ p[1] < rightArea
           /\ topArea <= p[2] /\ p[2] < bottomArea
        THEN ComputePixel(r, p[1], p[2], who)[p]
        ELSE r[p]]

\* computeSingleCore () on a freshly constructed image.
ComputeSingleCore(w, h) == ComputeArea(BlankRaster(w, h), 0, 0, w, h, "main")

\* The colours of a raster, as Image::write would read them.
Colors(r) == [p \in DOMAIN r |-> r[p].color]

(***************************************************************************)
(* computeMultiCore.                                                       *)
(***************************************************************************)
Threads == 1 .. MaxThreads

\* The widths of the images rendered: the small ones, the image of main(),
\* and the least width whose block arithmetic overflows.
Widths == (1 .. MaxWidth) \cup {MainWidth, OverflowWidth}

\* Every index nextBlock++ can return.
Indices == 0 .. NumBlocks + MaxThreads

ConcInit ==
    /\ width \in Widths
    /\ height \in 1 .. MaxHeight
    /\ nThreads \in 0 .. MaxThreads
    /\ mainPc = "running"
    /\ spawned = 0
    /\ joined = 0
    /\ pc = [t \in Threads |-> "unborn"]
    /\ currentBlock = [t \in Threads |-> 0]
    /\ nextBlock = 0
    /\ doneBlock = 0
    /\ raster = BlankRaster(width, height)
    /\ claims = [b \in Indices |-> 0]
    /\ computed = [b \in Indices |-> 0]
    /\ finished = 0
    /\ printed = [v \in 1 .. NumBlocks + MaxThreads |-> 0]

\* The spawn loop: threads[i] = std::thread (...), for i < nThreads.
Spawn ==
    /\ mainPc = "running"
    /\ spawned < nThreads
    /\ spawned' = spawned + 1
    /\ pc' = [pc EXCEPT ![spawned + 1] = "claim"]
    /\ UNCHANGED <<width, height, nThreads, mainPc, joined, currentBlock, nextBlock,
                   doneBlock, raster, claims, computed, finished, printed>>

\* A loop that runs one index too far.
InRange_Mutant(b) == b <= NumBlocks

\* The loop condition of the worker: currentBlock < 100.
InRange(b) == b < NumBlocks

\* currentBlock = nextBlock++ (atomic), then the test currentBlock < 100.
Claim(t) ==
    /\ pc[t] = "claim"
    /\ nextBlock' = nextBlock + 1
    /\ currentBlock' = [currentBlock EXCEPT ![t] = nextBlock]
    /\ claims' = [claims EXCEPT ![nextBlock] = @ + 1]
    /\ pc' = [pc EXCEPT ![t] = IF InRange(nextBlock) THEN "compute" ELSE "exit"]
    /\ UNCHANGED <<width, height, nThreads, mainPc, spawned, joined, doneBlock,
                   raster, computed, finished, printed>>

\* computeArea over the columns of currentBlock and all the rows.
Compute(t) ==
    /\ pc[t] = "compute"
    /\ raster' = ComputeArea(raster, BlockLeft(currentBlock[t], width), 0,
                             BlockRight(currentBlock[t], width), height, t)
    /\ computed' = [computed EXCEPT ![currentBlock[t]] = @ + 1]
    /\ finished' = finished + 1
    /\ pc' = [pc EXCEPT ![t] = "report"]
    /\ UNCHANGED <<width, height, nThreads, mainPc, spawned, joined, currentBlock,
                   nextBlock, doneBlock, claims, printed>>

\* std::cout << ... << ++doneBlock << "%" (atomic pre-increment).
Report(t) ==
    /\ pc[t] = "report"
    /\ doneBlock' = doneBlock + 1
    /\ printed' = [printed EXCEPT ![doneBlock + 1] = @ + 1]
    /\ pc' = [pc EXCEPT ![t] = "claim"]
    /\ UNCHANGED <<width, height, nThreads, mainPc, spawned, joined, currentBlock,
                   nextBlock, raster, claims, computed, finished>>

Worker(t) == Claim(t) \/ Compute(t) \/ Report(t)

\* A join that does not wait.
Joinable_Mutant(t) == pc[t] # "unborn"

\* th.join () returns once the thread's function has returned.
Joinable(t) == pc[t] = "exit"

\* The join loop, after the spawn loop: the threads are joined in order.
Join ==
    /\ mainPc = "running"
    /\ spawned = nThreads
    /\ joined < nThreads
    /\ Joinable(joined + 1)
    /\ joined' = joined + 1
    /\ UNCHANGED <<width, height, nThreads, mainPc, spawned, pc, currentBlock,
                   nextBlock, doneBlock, raster, claims, computed, finished, printed>>

\* std::cout << "\n" and the return of computeMultiCore.
Return ==
    /\ mainPc = "running"
    /\ spawned = nThreads
    /\ joined = nThreads
    /\ mainPc' = "returned"
    /\ UNCHANGED <<width, height, nThreads, spawned, joined, pc, currentBlock,
                   nextBlock, doneBlock, raster, claims, computed, finished, printed>>

(***************************************************************************)
(* The partition of the columns into blocks: the ranges of the 100 blocks, *)
(* applied one after the other to an image of width pWidth.                *)
(***************************************************************************)
PartColumns(w) == IF w <= MaxPartWidth THEN 0 .. w - 1 ELSE {0, w \div 2, w - 1}

PartWidths == (1 .. MaxPartWidth) \cup {MainWidth, OverflowWidth}

PartInit ==
    /\ pWidth \in PartWidths
    /\ pBlock = 0
    /\ pCover = [x \in PartColumns(pWidth) |-> 0]
    /\ pOutside = FALSE

\* The columns computeArea visits for block pBlock: x from BlockLeft while
\* x < BlockRight.
PartitionStep ==
    /\ pBlock < NumBlocks
    /\ LET leftArea == BlockLeft(pBlock, pWidth)
           rightArea == BlockRight(pBlock, pWidth)
       IN  /\ pCover' = [x \in DOMAIN pCover |->
                            IF leftArea <= x /\ x < rightArea
                            THEN pCover[x] + 1 ELSE pCover[x]]
           /\ pOutside' = (pOutside \/ (/\ leftArea < rightArea
                                        /\ (leftArea < 0 \/ rightArea > pWidth)))
    /\ pBlock' = pBlock + 1
    /\ UNCHANGED pWidth

(***************************************************************************)
(* computePixel: the iteration loop and the branch after it.               *)
(***************************************************************************)
PixInit ==
    /\ pxPc = "loop"
    /\ iN = 0
    /\ steps = 0
    /\ escaped = FALSE
    /\ color = "none"

\* One evaluation of the loop condition
\*     std::norm(z) < stopNorm && iN++ < maxIterations
\* and, when it holds, of the body z = step (z, c).  `below` is the outcome of
\* norm(z) < stopNorm for the current z.  && evaluates iN++ only when `below`
\* holds, and iN++ increments iN whatever the comparison then gives.
LoopTest(below) ==
    /\ pxPc = "loop"
    /\ IF below
       THEN /\ iN' = iN + 1
            /\ IF iN < maxIterations
               THEN /\ steps' = steps + 1
                    /\ UNCHANGED <<pxPc, escaped>>
               ELSE /\ pxPc' = "select"
                    /\ UNCHANGED <<steps, escaped>>
       ELSE /\ pxPc' = "select"
            /\ escaped' = TRUE
            /\ UNCHANGED <<iN, steps>>
    /\ UNCHANGED color

\* A test that treats a point as interior one iteration later.
InBody_Mutant(n) == n > maxIterations

\* if (iN >= maxIterations)
InBody(n) == n >= maxIterations

\* color = bodyColor, or the colour interpolated from colorList.
Select ==
    /\ pxPc = "select"
    /\ IF InBody(iN)
       THEN pxPc' = "body" /\ color' = "bodyColor"
       ELSE pxPc' = "gradient" /\ color' = "interpolated"
    /\ UNCHANGED <<iN, steps, escaped>>

(***************************************************************************)
(* The constructors.  The corners are given in halves (left = cl / 2, ...) *)
(* and the resolution is a whole number, so that every product below is    *)
(* exact in double arithmetic too.                                         *)
(***************************************************************************)
Corners == (0 - MaxCorner) .. MaxCorner

\* int (resolution * span), for a span of `halves` halves: the conversion
\* truncates toward zero.
ToPixels(resolution, halves) == DivInt(resolution * halves, 2)

\* Image::Image (w, h): new Color* [h], then h times new Color [w * 3].  A
\* new-expression with a negative array size throws
\* std::bad_array_new_length; one with size 0 succeeds.  Nothing else is
\* checked.  `allocations` counts the new-expressions that succeeded.
ImageImage(w, h) ==
    IF h < 0
    THEN [state |-> "threw", width |-> w, height |-> h, allocations |-> 0]
    ELSE IF h > 0 /\ w * 3 < 0
    THEN [state |-> "threw", width |-> w, height |-> h, allocations |-> 1]
    ELSE [state |-> "constructed", width |-> w, height |-> h, allocations |-> 1 + h]

\* Mandlebrot (resolution, left, top, right, bottom): the image is
\* constructed first, from int (resolution * (right - left)) and
\* int (resolution * (top - bottom)).
Construct(resolution, cl, ct, cr, cb) ==
    /\ ctor.state = "none"
    /\ ctor' = [image |-> ImageImage(ToPixels(resolution, cr - cl),
                                     ToPixels(resolution, ct - cb)),
                state |-> ImageImage(ToPixels(resolution, cr - cl),
                                     ToPixels(resolution, ct - cb)).state,
                resolution |-> resolution,
                left |-> cl, top |-> ct, right |-> cr, bottom |-> cb]

ConcIdle ==
    /\ width = 1
    /\ height = 1
    /\ nThreads = 0
    /\ mainPc = "returned"
    /\ spawned = 0
    /\ joined = 0
    /\ pc = [t \in Threads |-> "unborn"]
    /\ currentBlock = [t \in Threads |-> 0]
    /\ nextBlock = 0
    /\ doneBlock = 0
    /\ raster = BlankRaster(1, 1)
    /\ claims = [b \in Indices |-> 0]
    /\ computed = [b \in Indices |-> 0]
    /\ finished = 0
    /\ printed = [v \in 1 .. NumBlocks + MaxThreads |-> 0]

PartIdle ==
    /\ pWidth = 1
    /\ pBlock = NumBlocks
    /\ pCover = [x \in {0} |-> 1]
    /\ pOutside = FALSE

PixIdle ==
    /\ pxPc = "body"
    /\ iN = 0
    /\ steps = 0
    /\ escaped = FALSE
    /\ color = "none"

\* No engine has been constructed.
CtorIdle == ctor = [state |-> "none"]

Init == ConcInit /\ PartIdle /\ PixIdle /\ CtorIdle

Next ==
    \/ /\ Spawn
       /\ UNCHANGED <<partVars, pixVars, ctorVars>>
    \/ /\ \E t \in Threads : Worker(t)
       /\ UNCHANGED <<partVars, pixVars, ctorVars>>
    \/ /\ Join
       /\ UNCHANGED <<partVars, pixVars, ctorVars>>
    \/ /\ Return
       /\ UNCHANGED <<partVars, pixVars, ctorVars>>

Spec == Init /\ [][Next]_vars

PartitionNext ==
    /\ PartitionStep
    /\ UNCHANGED <<concVars, pixVars, ctorVars>>

PartitionInit == ConcIdle /\ PartInit /\ PixIdle /\ CtorIdle

PartitionSpec == PartitionInit /\ [][PartitionNext]_vars

PixelNext ==
    \/ /\ \E below \in BOOLEAN : LoopTest(below)
       /\ UNCHANGED <<concVars, partVars, ctorVars>>
    \/ /\ Select
       /\ UNCHANGED <<concVars, partVars, ctorVars>>

PixelInit == ConcIdle /\ PartIdle /\ PixInit /\ CtorIdle

PixelSpec == PixelInit /\ [][PixelNext]_vars

CtorNext ==
    /\ \E resolution \in 0 .. MaxResolution :
          \E cl \in Corners, ct \in Corners, cr \in Corners, cb \in Corners :
             Construct(resolution, cl, ct, cr, cb)
    /\ UNCHANGED <<concVars, partVars, pixVars>>

CtorInit == ConcIdle /\ PartIdle /\ PixIdle /\ CtorIdle

CtorSpec == CtorInit /\ [][CtorNext]_vars

\* Fair scheduling: as long as a thread can take a step, some thread does.
\* Whether the threads come to an end does not depend on the image, so the
\* image is the one main() renders.
FairInit == Init /\ width = MainWidth

FairSpec == FairInit /\ [][Next]_vars /\ WF_vars(Next)

(***************************************************************************)
(* What computeMultiCore has done so far.                                  *)
(***************************************************************************)
\* The number of block indices in 0..99 drawn from nextBlock so far.
ClaimedInRange == Cardinality({b \in 0 .. NumBlocks - 1 : claims[b] > 0})

\* Every block has been computed once and no worker is inside the loop.
AllBlocksComputed ==
    /\ \A b \in 0 .. NumBlocks - 1 : computed[b] = 1
    /\ \A t \in Threads : pc[t] \in {"unborn", "exit"}

\* Every worker that was to be started has left its loop.
AllWorkersExited == \A t \in Threads : t <= nThreads => pc[t] = "exit"

(***************************************************************************)
(* C1.  With nThreads >= 1 workers, under every interleaving: each block   *)
(* index 0..99 is claimed by exactly one worker (never by two, and by one  *)
(* once computeMultiCore has returned), no index outside 0..99 is ever     *)
(* computed, and each pixel of the image is written exactly once, by one   *)
(* worker (never twice, and once when computeMultiCore has returned).      *)
(***************************************************************************)
C1_Claim ==
    nThreads >= 1 =>
        /\ \A b \in Indices : claims[b] <= 1
        /\ \A b \in Indices : b >= NumBlocks => computed[b] = 0
        /\ \A p \in DOMAIN raster :
              raster[p].writes <= 1 /\ Cardinality(raster[p].writers) <= 1
        /\ mainPc = "returned" =>
              /\ \A b \in 0 .. NumBlocks - 1 : claims[b] = 1 /\ computed[b] = 1
              /\ \A p \in DOMAIN raster : raster[p].writes = 1

\* The same statement for the images whose block arithmetic stays within int:
\* there it holds, so the claim fails only through the overflow of C2.
C1_WithoutOverflow == MulOverflows(NumBlocks, width) \/ C1_Claim

(***************************************************************************)
(* C3.  For nThreads >= 1, the raster computeMultiCore leaves when it      *)
(* returns is pixel for pixel the raster computeSingleCore leaves.         *)
(***************************************************************************)
C3_Claim ==
    (nThreads >= 1 /\ mainPc = "returned") =>
        Colors(raster) = Colors(ComputeSingleCore(width, height))

C3_WithoutOverflow == MulOverflows(NumBlocks, width) \/ C3_Claim

(***************************************************************************)
(* C4.  With nThreads >= 1 and fair scheduling, every worker eventually    *)
(* leaves its claim loop and the join loop eventually completes; and       *)
(* whenever computeMultiCore has returned, all 100 blocks have been        *)
(* computed and no block is in progress.                                   *)
(***************************************************************************)
C4_Theorem ==
    /\ [](nThreads >= 1 => <>(AllWorkersExited /\ mainPc = "returned"))
    /\ []((nThreads >= 1 /\ mainPc = "returned") =>
             (AllBlocksComputed /\ AllWorkersExited))

C4_Witness ==
    /\ nThreads = MaxThreads
    /\ mainPc = "returned"
    /\ AllBlocksComputed
    /\ \E t \in Threads : currentBlock[t] = NumBlocks + 1

(***************************************************************************)
(* C5.  When hardware_concurrency () returns 0, computeMultiCore still     *)
(* runs at least one worker, so that all 100 blocks are computed before    *)
(* it returns.                                                             *)
(***************************************************************************)
C5_Claim ==
    (nThreads = 0 /\ mainPc = "returned") =>
        /\ spawned >= 1
        /\ \A b \in 0 .. NumBlocks - 1 : computed[b] >= 1

(***************************************************************************)
(* C10.  At every point of computeMultiCore, doneBlock is at most the      *)
(* number of finished computeArea calls, which is at most the number of    *)
(* indices in 0..99 claimed so far; doneBlock never exceeds 100; each      *)
(* value is produced by at most one increment, and the values produced are *)
(* 1..doneBlock; once all nThreads >= 1 workers are joined, doneBlock is   *)
(* 100 and each of 1..100 has been produced exactly once.                  *)
(***************************************************************************)
C10_Theorem ==
    /\ doneBlock <= finished
    /\ finished <= ClaimedInRange
    /\ doneBlock <= NumBlocks
    /\ \A v \in DOMAIN printed :
          printed[v] = (IF v <= doneBlock THEN 1 ELSE 0)
    /\ (nThreads >= 1 /\ joined = nThreads) =>
          /\ doneBlock = NumBlocks
          /\ \A v \in 1 .. NumBlocks : printed[v] = 1

\* Two workers at once: one has finished a block it has not yet reported, the
\* other is computing, and some progress has been printed.
C10_Witness ==
    /\ pc[1] = "report"
    /\ pc[2] = "compute"
    /\ doneBlock > 0
    /\ doneBlock < finished
    /\ finished < ClaimedInRange

(***************************************************************************)
(* C2.  For any width >= 1, the 100 column ranges                          *)
(* [b*width/100, (b+1)*width/100) are pairwise disjoint (no column lies in *)
(* two of them), no range reaches a column < 0 or >= width, and their      *)
(* union is [0, width): once all 100 are applied, every column lies in     *)
(* exactly one.                                                            *)
(***************************************************************************)
C2_Claim ==
    /\ \A x \in DOMAIN pCover : pCover[x] <= 1
    /\ ~pOutside
    /\ pBlock = NumBlocks => \A x \in DOMAIN pCover : pCover[x] = 1

\* The same statement for the widths whose products stay within int: there
\* it holds.
C2_WithoutOverflow == MulOverflows(NumBlocks, pWidth) \/ C2_Claim

(***************************************************************************)
(* C6.  When the iteration loop of computePixel has ended, the counter iN  *)
(* lies in [0, maxIterations].                                             *)
(***************************************************************************)
C6_Claim == pxPc # "loop" => (0 <= iN /\ iN <= maxIterations)

\* What the loop does guarantee: the number of iterations made is at most
\* maxIterations, and iN is that number, or one more when the loop ended on
\* the iteration limit.
C6_IterationsBounded ==
    /\ steps <= maxIterations
    /\ pxPc = "loop" => iN = steps
    /\ (pxPc # "loop" /\ escaped) => iN = steps
    /\ (pxPc # "loop" /\ ~escaped) => (steps = maxIterations /\ iN = maxIterations + 1)

(***************************************************************************)
(* C7.  computePixel takes the body-colour branch exactly when the orbit   *)
(* has not reached norm(z) >= stopNorm after fewer than maxIterations      *)
(* steps; a pixel whose orbit escapes after k < maxIterations steps takes  *)
(* the gradient branch, and an interior pixel never does.                  *)
(***************************************************************************)
C7_Theorem ==
    pxPc \in {"body", "gradient"} =>
        /\ (pxPc = "body") <=> ~(escaped /\ steps < maxIterations)
        /\ (color = "bodyColor") <=> ~(escaped /\ steps < maxIterations)
        /\ (color = "interpolated") <=> (escaped /\ steps < maxIterations)

\* The orbit that escapes at the very last step: it is painted as interior.
C7_Witness == pxPc = "body" /\ escaped /\ steps = maxIterations

(***************************************************************************)
(* C9.  A construction for which int (resolution * (right - left)) or      *)
(* int (resolution * (top - bottom)) is less than 1 fails before anything  *)
(* is allocated, and every engine that was constructed has width >= 1 and  *)
(* height >= 1.                                                            *)
(***************************************************************************)
C9_Claim ==
    ctor.state # "none" =>
        /\ (ctor.image.width < 1 \/ ctor.image.height < 1) =>
              (ctor.state = "threw" /\ ctor.image.allocations = 0)
        /\ ctor.state = "constructed" =>
              (ctor.image.width >= 1 /\ ctor.image.height >= 1)

=============================================================================
